---- MODULE Spec2Model ----
(***************************************************************************)
(* Model of the kosher-prices price board: the add-price form (intake),    *)
(* the price_submissions table, the moderation update, and the home page's *)
(* aggregation (latest map, sale validity, display price, cheapest store). *)
(***************************************************************************)
EXTENDS Integers, Sequences, FiniteSets, TLC

(***************************************************************************)
(* JavaScript Number arithmetic (IEEE-754 binary64, round to nearest, ties *)
(* to even).  A natural number is a little-endian sequence of limbs in     *)
(* 0..Base-1 without high zero limbs; a finite non-negative Number is      *)
(* m * 2^e with m of exactly MantissaBits bits (or zero); neg is its sign.  *)
(* Subnormals and overflow are outside the range of the prices modelled    *)
(* here, and -0 is not told from 0.                                        *)
(***************************************************************************)
MantissaBits == 53
LimbBits == 15
Base == 2^LimbBits

RECURSIVE LNat(_)
LNat(n) == IF n = 0 THEN <<>> ELSE <<n % Base>> \o LNat(n \div Base)

RECURSIVE LInt(_)
LInt(a) == IF a = <<>> THEN 0 ELSE Head(a) + Base * LInt(Tail(a))

RECURSIVE LTrim(_)
LTrim(a) ==
  IF a # <<>> /\ a[Len(a)] = 0 THEN LTrim(SubSeq(a, 1, Len(a) - 1)) ELSE a

Limb(a, i) == IF i >= 1 /\ i <= Len(a) THEN a[i] ELSE 0

Rest(a) == IF a = <<>> THEN <<>> ELSE Tail(a)

RECURSIVE LAddC(_, _, _)
LAddC(a, b, c) ==
  IF a = <<>> /\ b = <<>>
  THEN IF c = 0 THEN <<>> ELSE <<c>>
  ELSE LET s == Limb(a, 1) + Limb(b, 1) + c
       IN  <<s % Base>> \o LAddC(Rest(a), Rest(b), s \div Base)

LAdd(a, b) == LAddC(a, b, 0)

RECURSIVE LSubB(_, _, _)
LSubB(a, b, c) ==
  IF a = <<>>
  THEN <<>>
  ELSE LET d == Limb(a, 1) - Limb(b, 1) - c
       IN  <<d % Base>> \o LSubB(Rest(a), Rest(b), IF d < 0 THEN 1 ELSE 0)

\* a - b for a >= b
LSub(a, b) == LTrim(LSubB(a, b, 0))

RECURSIVE LessFrom(_, _, _)
LessFrom(a, b, i) ==
  IF i = 0 THEN FALSE
  ELSE IF a[i] # b[i] THEN a[i] < b[i]
  ELSE LessFrom(a, b, i - 1)

LLess(a, b) ==
  IF Len(a) # Len(b) THEN Len(a) < Len(b) ELSE LessFrom(a, b, Len(a))

\* a * s + c for a limb s
RECURSIVE LMulSmall(_, _, _)
LMulSmall(a, s, c) ==
  IF a = <<>>
  THEN LNat(c)
  ELSE LET p == Head(a) * s + c
       IN  <<p % Base>> \o LMulSmall(Tail(a), s, p \div Base)

RECURSIVE LMul(_, _)
LMul(a, b) ==
  IF a = <<>> \/ b = <<>> THEN <<>>
  ELSE LTrim(LAdd(LMulSmall(a, Head(b), 0), <<0>> \o LMul(a, Tail(b))))

\* a divided by a limb s > 0, from limb i down: [q, r]
RECURSIVE DivSmallFrom(_, _, _, _, _)
DivSmallFrom(a, s, i, q, r) ==
  IF i = 0 THEN [q |-> LTrim(q), r |-> r]
  ELSE LET cur == r * Base + a[i]
       IN  DivSmallFrom(a, s, i - 1, <<cur \div s>> \o q, cur % s)

LDivSmall(a, s) == DivSmallFrom(a, s, Len(a), <<>>, 0)

LShl(a, k) ==
  IF a = <<>> THEN <<>>
  ELSE LTrim(LMulSmall([i \in 1..(k \div LimbBits) |-> 0] \o a,
                       2^(k % LimbBits), 0))

LShr(a, k) ==
  LDivSmall(SubSeq(a, (k \div LimbBits) + 1, Len(a)), 2^(k % LimbBits)).q

RECURSIVE IntBitLen(_)
IntBitLen(n) == IF n = 0 THEN 0 ELSE 1 + IntBitLen(n \div 2)

LBitLen(a) ==
  IF a = <<>> THEN 0 ELSE LimbBits * (Len(a) - 1) + IntBitLen(a[Len(a)])

\* bit i (from 1, the lowest) of a
LBit(a, i) ==
  (Limb(a, ((i - 1) \div LimbBits) + 1) \div 2^((i - 1) % LimbBits)) % 2

\* the largest limb q with d * q <= r, for r < d * Base, by bisection
RECURSIVE Digit(_, _, _, _)
Digit(r, d, q, j) ==
  IF j < 0 THEN q
  ELSE IF LLess(r, LMulSmall(d, q + 2^j, 0))
       THEN Digit(r, d, q, j - 1)
       ELSE Digit(r, d, q + 2^j, j - 1)

\* long division of n by d > 0, from limb i of n down: [q, r]
RECURSIVE DivFrom(_, _, _, _, _)
DivFrom(n, d, i, q, r) ==
  IF i = 0 THEN [q |-> LTrim(q), r |-> r]
  ELSE LET cur == LTrim(<<n[i]>> \o r)
           dg  == Digit(cur, d, 0, LimbBits - 1)
       IN  DivFrom(n, d, i - 1, <<dg>> \o q, LSub(cur, LMulSmall(d, dg, 0)))

LDivMod(n, d) == DivFrom(n, d, Len(n), <<>>, <<>>)

Zero == [k |-> "num", neg |-> FALSE, m |-> <<>>, e |-> 0]
NaN == [k |-> "nan", neg |-> FALSE, m |-> <<>>, e |-> 0]
Infinity == [k |-> "inf", neg |-> FALSE, m |-> <<>>, e |-> 0]

\* the Number nearest to (n / d) * 2^e0, ties to even; n, d > 0
RoundToNumber(n, d, e0) ==
  LET k    == MantissaBits + 2 + LBitLen(d) - LBitLen(n)
      nn   == IF k > 0 THEN LShl(n, k) ELSE n
      dd   == IF k < 0 THEN LShl(d, 0 - k) ELSE d
      qr   == LDivMod(nn, dd)
      drop == LBitLen(qr.q) - MantissaBits
      m0   == LShr(qr.q, drop)
      guard  == LBit(qr.q, drop)
      sticky == qr.r # <<>> \/ \E i \in 1..(drop - 1) : LBit(qr.q, i) = 1
      up   == guard = 1 /\ (sticky \/ LBit(m0, 1) = 1)
      m1   == IF up THEN LAdd(m0, <<1>>) ELSE m0
      e1   == e0 - k + drop
  IN  IF LBitLen(m1) > MantissaBits
      THEN [k |-> "num", neg |-> FALSE, m |-> LShr(m1, 1), e |-> e1 + 1]
      ELSE [k |-> "num", neg |-> FALSE, m |-> m1, e |-> e1]

\* -x
Neg(x) ==
  IF x.k = "nan" \/ (x.k = "num" /\ x.m = <<>>) THEN x ELSE [x EXCEPT !.neg = ~x.neg]

Signed(x, neg) == IF neg THEN Neg(x) ELSE x

\* the Number of an integer, and of the decimal n / d for n >= 0, d > 0
FromNat(n) ==
  IF n = 0 THEN Zero
  ELSE IF n < 0 THEN Neg(RoundToNumber(LNat(0 - n), <<1>>, 0))
  ELSE RoundToNumber(LNat(n), <<1>>, 0)

FromDec(n, d) == IF n = 0 THEN Zero ELSE RoundToNumber(LNat(n), LNat(d), 0)

FMul(x, y) ==
  IF x.k = "nan" \/ y.k = "nan" THEN NaN
  ELSE IF x.k = "inf" \/ y.k = "inf"
  THEN (IF x = Zero \/ y = Zero THEN NaN ELSE Signed(Infinity, x.neg # y.neg))
  ELSE IF x.m = <<>> \/ y.m = <<>> THEN Zero
  ELSE Signed(RoundToNumber(LMul(x.m, y.m), <<1>>, x.e + y.e), x.neg # y.neg)

FDiv(x, y) ==
  IF x.k = "nan" \/ y.k = "nan" THEN NaN
  ELSE IF x.k = "inf" THEN (IF y.k = "inf" THEN NaN ELSE Signed(Infinity, x.neg # y.neg))
  ELSE IF y.k = "inf" THEN Zero
  ELSE IF y.m = <<>> THEN (IF x.m = <<>> THEN NaN ELSE Signed(Infinity, x.neg # y.neg))
  ELSE IF x.m = <<>> THEN Zero
  ELSE Signed(RoundToNumber(x.m, y.m, x.e - y.e), x.neg # y.neg)

\* x < y for finite non-negative Numbers
FLess(x, y) ==
  IF y.m = <<>> THEN FALSE
  ELSE IF x.m = <<>> THEN TRUE
  ELSE IF x.e # y.e THEN x.e < y.e
  ELSE LLess(x.m, y.m)

FLeq(x, y) == ~FLess(y, x)

\* x - y for finite Numbers x >= y >= 0
FSubMag(x, y) ==
  IF y.m = <<>> THEN x
  ELSE LET e == IF x.e < y.e THEN x.e ELSE y.e
           n == LSub(LShl(x.m, x.e - e), LShl(y.m, y.e - e))
       IN  IF n = <<>> THEN Zero ELSE RoundToNumber(n, <<1>>, e)

\* x - y for finite non-negative Numbers
FSub(x, y) == IF FLess(x, y) THEN Neg(FSubMag(y, x)) ELSE FSubMag(x, y)

\* floor(x + 1/2) for a finite Number x >= 0, and whether x + 1/2 is an integer
RoundHalfUp(x) ==
  IF x.m = <<>> THEN [n |-> 0, tie |-> FALSE]
  ELSE IF x.e >= 0 THEN [n |-> LInt(LShl(x.m, x.e)), tie |-> FALSE]
  ELSE LET half == LAdd(x.m, LShl(<<1>>, (0 - x.e) - 1))
           n    == LShr(half, 0 - x.e)
       IN  [n |-> LInt(n), tie |-> LShl(n, 0 - x.e) = half]

\* Math.round of a finite Number, as an integer: floor(x + 1/2)
MathRound(x) ==
  LET r == RoundHalfUp([x EXCEPT !.neg = FALSE])
  IN  IF ~x.neg THEN r.n
      ELSE IF r.tie THEN 0 - (r.n - 1)
      ELSE 0 - r.n

IsFinite(x) == x.k = "num"

(***************************************************************************)
(* Optional values (undefined, null, {} in the source) are sequences of    *)
(* length 0 or 1.                                                          *)
(***************************************************************************)
None == <<>>
Some(x) == <<x>>

(***************************************************************************)
(* The database.  stores ordered by sort_order, product_variants, and the  *)
(* inputs a user can put in the add-price form.  A price text is given     *)
(* with the decimal it denotes in thousandths (mills = None: not numeric). *)
(***************************************************************************)
StoresTable == <<"s1", "s2", "s3">>
VariantIds == {"v1", "v2"}

PriceTexts ==
  { [text |-> "abc",   neg |-> FALSE, mills |-> None],
    [text |-> "-0.45", neg |-> TRUE,  mills |-> Some(450)],
    [text |-> "0",     neg |-> FALSE, mills |-> Some(0)],
    [text |-> "0.004", neg |-> FALSE, mills |-> Some(4)],
    [text |-> "0.45",  neg |-> FALSE, mills |-> Some(450)],
    [text |-> "0.48",  neg |-> FALSE, mills |-> Some(480)] }

PriceTypes == {"regular", "sale"}

\* bounds of the model
MaxSubs == 2
MaxRows == 3
MaxApproving == 1
MaxDbNow == 2
MaxNow == 3
MaxDay == 1
TicksPerDay == 2

\* <input type="date"> values: "" or a calendar day
SaleEndDates == {None} \cup {Some(d) : d \in 0..MaxDay}

\* Number(price)
NumberOf(price) ==
  IF price.mills = None THEN NaN
  ELSE Signed(FromDec(price.mills[1], 1000), price.neg)

\* submit, lines 74-77: None when the price is rejected, else Some(cents)
CentsOfPrice(price) ==
  LET dollars == NumberOf(price)
  IN  IF ~IsFinite(dollars) \/ dollars.neg \/ dollars = Zero
      THEN None
      ELSE Some(MathRound(FMul(dollars, FromNat(100))))

CentsOf == [price \in PriceTexts |-> CentsOfPrice(price)]

\* every price_cents the form can store
PriceCents == {CentsOf[price][1] : price \in {q \in PriceTexts : CentsOf[q] # None}}

VARIABLES
  price_submissions,  \* the table, in insertion order; a row's id is its index
  dbNow,              \* the database clock (created_at default)
  now,                \* the browser clock, in ticks (TicksPerDay per day)
  status,             \* add page: status
  items,              \* moderate page: pending submissions shown
  modLoading,         \* moderate page: loading
  approving,          \* moderate page: approve calls awaiting the update's answer
  stores,             \* home page: stores
  submissions,        \* home page: submissions (the feed)
  loading,            \* home page: loading
  mode,               \* home page: mode
  variants,           \* home page: variants
  query               \* home page: query

dbVars == <<price_submissions, dbNow>>
addVars == <<status>>
modVars == <<items, modLoading, approving>>
homeVars == <<stores, submissions, loading, mode, variants, query>>
vars == <<price_submissions, dbNow, now, status, items, modLoading, approving,
          stores, submissions, loading, mode, variants, query>>

Init ==
  /\ price_submissions = <<>>
  /\ dbNow = 0
  /\ now = 0
  /\ status = ""
  /\ items = <<>>
  /\ modLoading = TRUE
  /\ approving = <<>>
  /\ stores = <<>>
  /\ submissions = <<>>
  /\ loading = TRUE
  /\ mode = "best"
  /\ variants = <<>>
  /\ query = <<>>

(***************************************************************************)
(* Add page: submit.                                                       *)
(***************************************************************************)
\* the inserted object, with the table's defaults for created_at and is_approved
RowOf(storeId, variantId, cents, priceType, saleEndDate, createdAt, approved) ==
  [ store_id      |-> storeId,
    variant_id    |-> variantId,
    price_cents   |-> cents,
    price_type    |-> priceType,
    sale_end_date |-> IF priceType = "sale" /\ saleEndDate # None
                      THEN saleEndDate ELSE None,
    created_at    |-> createdAt,
    is_approved   |-> approved ]

NewRow(storeId, variantId, cents, priceType, saleEndDate) ==
  RowOf(storeId, variantId, cents, priceType, saleEndDate, dbNow, FALSE)

Submit(storeId, variantId, price, priceType, saleEndDate, insertOk) ==
  /\ UNCHANGED <<now, modVars, homeVars>>
  /\ IF storeId = ""
     THEN status' = "Pick a store." /\ UNCHANGED dbVars
     ELSE IF variantId = ""
     THEN status' = "Pick a product (brand/size/flavour)." /\ UNCHANGED dbVars
     ELSE IF CentsOf[price] = None
     THEN status' = "Enter a valid price like 12.99." /\ UNCHANGED dbVars
     ELSE IF ~insertOk
     THEN status' = "Error: " /\ UNCHANGED dbVars
     ELSE /\ Len(price_submissions) < MaxSubs
          /\ price_submissions' = Append(price_submissions,
               NewRow(storeId, variantId, CentsOf[price][1], priceType, saleEndDate))
          /\ status' = "Saved!"
          /\ UNCHANGED dbNow

DbTick ==
  /\ dbNow < MaxDbNow
  /\ dbNow' = dbNow + 1
  /\ UNCHANGED <<price_submissions, now, addVars, modVars, homeVars>>

Tick ==
  /\ now < MaxNow
  /\ now' = now + 1
  /\ UNCHANGED <<dbVars, addVars, modVars, homeVars>>

(***************************************************************************)
(* Queries: .order("created_at", {ascending: false}).limit(n).  Rows with  *)
(* equal created_at come in any order.                                     *)
(***************************************************************************)
ModerateLimit == 100
FeedLimit == 5000

Take(seq, n) == SubSeq(seq, 1, IF Len(seq) < n THEN Len(seq) ELSE n)

RowIds(approved) ==
  {i \in 1..Len(price_submissions) : price_submissions[i].is_approved = approved}

NewestFirst(ids) ==
  {f \in [1..Cardinality(ids) -> ids] :
     /\ \A i, j \in DOMAIN f : i # j => f[i] # f[j]
     /\ \A i \in DOMAIN f : i + 1 \in DOMAIN f =>
          price_submissions[f[i]].created_at >= price_submissions[f[i + 1]].created_at}

(***************************************************************************)
(* Moderate page: load and approve.                                        *)
(***************************************************************************)
PendingOf(id) ==
  [ id          |-> id,
    created_at  |-> price_submissions[id].created_at,
    price_cents |-> price_submissions[id].price_cents,
    price_type  |-> price_submissions[id].price_type ]

ModerateLoad(ok) ==
  /\ modLoading
  /\ modLoading' = FALSE
  /\ IF ok
     THEN \E order \in NewestFirst(RowIds(FALSE)) :
            items' = Take([i \in DOMAIN order |-> PendingOf(order[i])], ModerateLimit)
     ELSE items' = items
  /\ UNCHANGED <<dbVars, now, addVars, approving, homeVars>>

\* approve(id) up to the await: the update is sent and answered by the database
ApproveUpdate(id, ok) ==
  /\ \E i \in DOMAIN items : items[i].id = id
  /\ price_submissions' =
       IF ok THEN [price_submissions EXCEPT ![id].is_approved = TRUE]
       ELSE price_submissions
  /\ approving' = Append(approving, [id |-> id, error |-> ~ok])
  /\ UNCHANGED <<dbNow, now, addVars, items, modLoading, homeVars>>

\* an approve that removes the item whatever the update answered
ApproveReturnAlways(k) ==
  /\ k \in DOMAIN approving
  /\ approving' = SubSeq(approving, 1, k - 1) \o SubSeq(approving, k + 1, Len(approving))
  /\ items' = SelectSeq(items, LAMBDA x : x.id # approving[k].id)
  /\ UNCHANGED <<dbVars, now, addVars, modLoading, homeVars>>

\* approve(id) after the await, for the k-th call awaiting its answer
ApproveReturn(k) ==
  /\ k \in DOMAIN approving
  /\ approving' = SubSeq(approving, 1, k - 1) \o SubSeq(approving, k + 1, Len(approving))
  /\ items' =
       IF approving[k].error THEN items
       ELSE SelectSeq(items, LAMBDA x : x.id # approving[k].id)
  /\ UNCHANGED <<dbVars, now, addVars, modLoading, homeVars>>

(***************************************************************************)
(* Text: a string is the sequence of its characters.                       *)
(***************************************************************************)
Whitespace == {" ", "\t"}

\* String.prototype.toLowerCase, character by character
LowerOf(c) ==
  CASE c = "A" -> "a"
    [] c = "B" -> "b"
    [] c = "L" -> "l"
    [] OTHER -> c

ToLowerCase(text) == [i \in DOMAIN text |-> LowerOf(text[i])]

\* String.prototype.trim
RECURSIVE TrimStart(_)
TrimStart(text) ==
  IF text # <<>> /\ Head(text) \in Whitespace THEN TrimStart(Tail(text)) ELSE text

RECURSIVE TrimEnd(_)
TrimEnd(text) ==
  IF text # <<>> /\ text[Len(text)] \in Whitespace
  THEN TrimEnd(SubSeq(text, 1, Len(text) - 1)) ELSE text

Trim(text) == TrimEnd(TrimStart(text))

\* String.prototype.includes
Includes(text, q) ==
  \E i \in 0..(Len(text) - Len(q)) : SubSeq(text, i + 1, i + Len(q)) = q

\* a number in a template literal (naturals)
DigitText == <<"0", "1", "2", "3", "4", "5", "6", "7", "8", "9">>

RECURSIVE NumberToText(_)
NumberToText(n) ==
  IF n < 10 THEN <<DigitText[n + 1]>>
  ELSE NumberToText(n \div 10) \o <<DigitText[(n % 10) + 1]>>

\* localeCompare of lower-cased keys: character by character, a prefix first
CharOrder == <<"\t", " ", "0", "1", "2", "3", "4", "5", "6", "7", "8", "9", "a", "b", "l">>
CharRank(c) == CHOOSE i \in DOMAIN CharOrder : CharOrder[i] = c

RECURSIVE LocaleLess(_, _)
LocaleLess(a, b) ==
  IF b = <<>> THEN FALSE
  ELSE IF a = <<>> THEN TRUE
  ELSE IF Head(a) # Head(b) THEN CharRank(Head(a)) < CharRank(Head(b))
  ELSE LocaleLess(Tail(a), Tail(b))

(***************************************************************************)
(* The product_variants table with its products and brands, as the query   *)
(* of load returns it.                                                     *)
(***************************************************************************)
ProductVariantsTable ==
  << [ id |-> "v2", size_value |-> Some(2), size_unit |-> Some(<<"L">>),
       flavour |-> Some(<<"B", "a">>),
       products |-> Some(<<"A">>), brands |-> Some(<<"b">>) ],
     [ id |-> "v1", size_value |-> None, size_unit |-> None,
       flavour |-> None,
       products |-> Some(<<"A", "b">>), brands |-> None ] >>

\* x ?? ""
OrEmpty(x) == IF x = None THEN <<>> ELSE x[1]

\* size_value ?? "" in a template literal
SizeText(x) == IF x = None THEN <<>> ELSE NumberToText(x[1])

MappedVariants ==
  [i \in DOMAIN ProductVariantsTable |->
     LET v == ProductVariantsTable[i]
     IN  [ id           |-> v.id,
           product_name |-> OrEmpty(v.products),
           brand_name   |-> OrEmpty(v.brands),
           size_value   |-> v.size_value,
           size_unit    |-> v.size_unit,
           flavour      |-> v.flavour ]]

\* the key of the sort of load
SortKey(v) ==
  ToLowerCase(v.product_name \o <<" ">> \o v.brand_name \o <<" ">> \o
              SizeText(v.size_value) \o OrEmpty(v.size_unit) \o <<" ">> \o
              OrEmpty(v.flavour))

RECURSIVE InsertByKey(_, _)
InsertByKey(x, sorted) ==
  IF sorted = <<>> THEN <<x>>
  ELSE IF LocaleLess(SortKey(x), SortKey(Head(sorted))) THEN <<x>> \o sorted
  ELSE <<Head(sorted)>> \o InsertByKey(x, Tail(sorted))

RECURSIVE SortByKey(_)
SortByKey(vs) ==
  IF vs = <<>> THEN <<>>
  ELSE InsertByKey(vs[Len(vs)], SortByKey(SubSeq(vs, 1, Len(vs) - 1)))

(***************************************************************************)
(* Home page: load, mode buttons.                                          *)
(***************************************************************************)
SubmissionOf(id) ==
  [ id            |-> id,
    store_id      |-> price_submissions[id].store_id,
    variant_id    |-> price_submissions[id].variant_id,
    price_cents   |-> price_submissions[id].price_cents,
    price_type    |-> price_submissions[id].price_type,
    sale_end_date |-> price_submissions[id].sale_end_date,
    created_at    |-> price_submissions[id].created_at ]

Load(storeOk, vOk, subOk) ==
  /\ loading
  /\ loading' = FALSE
  /\ stores' = IF storeOk THEN StoresTable ELSE <<>>
  /\ variants' = IF vOk THEN SortByKey(MappedVariants) ELSE <<>>
  /\ IF subOk
     THEN \E order \in NewestFirst(RowIds(TRUE)) :
            submissions' = Take([i \in DOMAIN order |-> SubmissionOf(order[i])], FeedLimit)
     ELSE submissions' = <<>>
  /\ UNCHANGED <<dbVars, now, addVars, modVars, mode, query>>

Modes == {"best", "regular", "sale"}

SetMode(m) ==
  /\ mode' = m
  /\ UNCHANGED <<dbVars, now, addVars, modVars, stores, submissions, loading,
                 variants, query>>

\* the search box: onChange={(e) => setQuery(e.target.value)}
SetQuery(q) ==
  /\ query' = q
  /\ UNCHANGED <<dbVars, now, addVars, modVars, stores, submissions, loading,
                 mode, variants>>

(***************************************************************************)
(* Home page: the aggregation.                                             *)
(***************************************************************************)
EmptyMap == [x \in {} |-> None]
EmptySlot == [regular |-> None, sale |-> None]

Put(map, key, val) ==
  [x \in DOMAIN map \cup {key} |-> IF x = key THEN val ELSE map[x]]

\* a loop that overwrites a filled slot (the last submission wins)
RECURSIVE LatestFromLastWins(_, _, _)
LatestFromLastWins(subs, i, map) ==
  IF i > Len(subs) THEN map
  ELSE LET s       == subs[i]
           byStore == IF s.variant_id \in DOMAIN map THEN map[s.variant_id] ELSE EmptyMap
           slot    == IF s.store_id \in DOMAIN byStore THEN byStore[s.store_id] ELSE EmptySlot
           slot1   == IF s.price_type = "regular"
                      THEN [slot EXCEPT !.regular = Some(s)] ELSE slot
           slot2   == IF s.price_type = "sale"
                      THEN [slot1 EXCEPT !.sale = Some(s)] ELSE slot1
       IN  IF s.variant_id = ""
           THEN LatestFromLastWins(subs, i + 1, map)
           ELSE LatestFromLastWins(subs, i + 1,
                           Put(map, s.variant_id, Put(byStore, s.store_id, slot2)))

\* a loop that fills the regular slot with a submission of any type
RECURSIVE LatestFromAnyType(_, _, _)
LatestFromAnyType(subs, i, map) ==
  IF i > Len(subs) THEN map
  ELSE LET s       == subs[i]
           byStore == IF s.variant_id \in DOMAIN map THEN map[s.variant_id] ELSE EmptyMap
           slot    == IF s.store_id \in DOMAIN byStore THEN byStore[s.store_id] ELSE EmptySlot
           slot1   == IF slot.regular = None
                      THEN [slot EXCEPT !.regular = Some(s)] ELSE slot
           slot2   == IF s.price_type = "sale" /\ slot1.sale = None
                      THEN [slot1 EXCEPT !.sale = Some(s)] ELSE slot1
       IN  IF s.variant_id = ""
           THEN LatestFromAnyType(subs, i + 1, map)
           ELSE LatestFromAnyType(subs, i + 1,
                           Put(map, s.variant_id, Put(byStore, s.store_id, slot2)))

\* a loop without the skip of submissions that have no variant_id
RECURSIVE LatestFromKeepsEmpty(_, _, _)
LatestFromKeepsEmpty(subs, i, map) ==
  IF i > Len(subs) THEN map
  ELSE LET s       == subs[i]
           byStore == IF s.variant_id \in DOMAIN map THEN map[s.variant_id] ELSE EmptyMap
           slot    == IF s.store_id \in DOMAIN byStore THEN byStore[s.store_id] ELSE EmptySlot
           slot1   == IF s.price_type = "regular" /\ slot.regular = None
                      THEN [slot EXCEPT !.regular = Some(s)] ELSE slot
           slot2   == IF s.price_type = "sale" /\ slot1.sale = None
                      THEN [slot1 EXCEPT !.sale = Some(s)] ELSE slot1
       IN  LatestFromKeepsEmpty(subs, i + 1,
                           Put(map, s.variant_id, Put(byStore, s.store_id, slot2)))

\* a loop that replaces an expired sale in the slot by an older one still running
RECURSIVE LatestFromActiveSale(_, _, _)
LatestFromActiveSale(subs, i, map) ==
  IF i > Len(subs) THEN map
  ELSE LET s       == subs[i]
           byStore == IF s.variant_id \in DOMAIN map THEN map[s.variant_id] ELSE EmptyMap
           slot    == IF s.store_id \in DOMAIN byStore THEN byStore[s.store_id] ELSE EmptySlot
           Runs(x) == \/ x.sale_end_date = None
                      \/ x.sale_end_date[1] * TicksPerDay >= now - (now % TicksPerDay)
           slot1   == IF s.price_type = "regular" /\ slot.regular = None
                      THEN [slot EXCEPT !.regular = Some(s)] ELSE slot
           slot2   == IF /\ s.price_type = "sale"
                         /\ \/ slot1.sale = None
                            \/ ~Runs(slot1.sale[1]) /\ Runs(s)
                      THEN [slot1 EXCEPT !.sale = Some(s)] ELSE slot1
       IN  IF s.variant_id = ""
           THEN LatestFromActiveSale(subs, i + 1, map)
           ELSE LatestFromActiveSale(subs, i + 1,
                           Put(map, s.variant_id, Put(byStore, s.store_id, slot2)))

\* the loop of the latest memo, from the i-th submission of subs on
RECURSIVE LatestFrom(_, _, _)
LatestFrom(subs, i, map) ==
  IF i > Len(subs) THEN map
  ELSE LET s       == subs[i]
           byStore == IF s.variant_id \in DOMAIN map THEN map[s.variant_id] ELSE EmptyMap
           slot    == IF s.store_id \in DOMAIN byStore THEN byStore[s.store_id] ELSE EmptySlot
           slot1   == IF s.price_type = "regular" /\ slot.regular = None
                      THEN [slot EXCEPT !.regular = Some(s)] ELSE slot
           slot2   == IF s.price_type = "sale" /\ slot1.sale = None
                      THEN [slot1 EXCEPT !.sale = Some(s)] ELSE slot1
       IN  IF s.variant_id = ""
           THEN LatestFrom(subs, i + 1, map)
           ELSE LatestFrom(subs, i + 1,
                           Put(map, s.variant_id, Put(byStore, s.store_id, slot2)))

latest == LatestFrom(submissions, 1, EmptyMap)

\* setHours(0, 0, 0, 0) and new Date(d + "T00:00:00"), in ticks
StartOfDay(t) == t - (t % TicksPerDay)
DateTime(d) == d * TicksPerDay

\* a check that ends the sale on its end date (end > today)
IsSaleStillValidStrict(sale) ==
  IF sale = None THEN FALSE
  ELSE IF sale[1].sale_end_date = None THEN TRUE
  ELSE LET today == StartOfDay(now)
           end   == DateTime(sale[1].sale_end_date[1])
       IN  end > today

\* a check that never looks at the end date
IsSaleStillValidAlways(sale) == sale # None

IsSaleStillValid(sale) ==
  IF sale = None THEN FALSE
  ELSE IF sale[1].sale_end_date = None THEN TRUE
  ELSE LET today == StartOfDay(now)
           end   == DateTime(sale[1].sale_end_date[1])
       IN  end >= today

\* price_cents / 100
PriceOf == [cents \in PriceCents |-> FDiv(FromNat(cents), FromNat(100))]

\* a resolver whose tie goes to the regular price (sale < regular)
GetDisplayPriceTieRegular(variantId, storeId) ==
  IF variantId \notin DOMAIN latest \/ storeId \notin DOMAIN latest[variantId]
  THEN None
  ELSE
    LET slot    == latest[variantId][storeId]
        regular == IF slot.regular # None
                   THEN Some(PriceOf[slot.regular[1].price_cents]) ELSE None
        saleOk  == IsSaleStillValid(slot.sale)
        sale    == IF slot.sale # None /\ saleOk
                   THEN Some(PriceOf[slot.sale[1].price_cents]) ELSE None
        Sale    == [price |-> sale[1], isSale |-> TRUE,
                    created_at |-> slot.sale[1].created_at]
        Regular == [price |-> regular[1], isSale |-> FALSE,
                    created_at |-> slot.regular[1].created_at]
    IN  IF mode = "regular"
        THEN (IF slot.regular # None THEN Some(Regular) ELSE None)
        ELSE IF mode = "sale"
        THEN (IF slot.sale # None /\ saleOk THEN Some(Sale) ELSE None)
        ELSE IF sale # None /\ regular # None
        THEN (IF FLess(sale[1], regular[1]) THEN Some(Sale) ELSE Some(Regular))
        ELSE IF sale # None THEN Some(Sale)
        ELSE IF regular # None THEN Some(Regular)
        ELSE None

\* a resolver that, for a store without a slot, takes the slot of another store
GetDisplayPriceAnyStore(variantId, storeId) ==
  IF variantId \notin DOMAIN latest
  THEN None
  ELSE
    LET slot    == IF storeId \in DOMAIN latest[variantId]
                   THEN latest[variantId][storeId]
                   ELSE latest[variantId][CHOOSE s \in DOMAIN latest[variantId] : TRUE]
        regular == IF slot.regular # None
                   THEN Some(PriceOf[slot.regular[1].price_cents]) ELSE None
        saleOk  == IsSaleStillValid(slot.sale)
        sale    == IF slot.sale # None /\ saleOk
                   THEN Some(PriceOf[slot.sale[1].price_cents]) ELSE None
        Sale    == [price |-> sale[1], isSale |-> TRUE,
                    created_at |-> slot.sale[1].created_at]
        Regular == [price |-> regular[1], isSale |-> FALSE,
                    created_at |-> slot.regular[1].created_at]
    IN  IF mode = "regular"
        THEN (IF slot.regular # None THEN Some(Regular) ELSE None)
        ELSE IF mode = "sale"
        THEN (IF slot.sale # None /\ saleOk THEN Some(Sale) ELSE None)
        ELSE IF sale # None /\ regular # None
        THEN (IF FLeq(sale[1], regular[1]) THEN Some(Sale) ELSE Some(Regular))
        ELSE IF sale # None THEN Some(Sale)
        ELSE IF regular # None THEN Some(Regular)
        ELSE None

GetDisplayPrice(variantId, storeId) ==
  IF variantId \notin DOMAIN latest \/ storeId \notin DOMAIN latest[variantId]
  THEN None
  ELSE
    LET slot    == latest[variantId][storeId]
        regular == IF slot.regular # None
                   THEN Some(PriceOf[slot.regular[1].price_cents]) ELSE None
        saleOk  == IsSaleStillValid(slot.sale)
        sale    == IF slot.sale # None /\ saleOk
                   THEN Some(PriceOf[slot.sale[1].price_cents]) ELSE None
        Sale    == [price |-> sale[1], isSale |-> TRUE,
                    created_at |-> slot.sale[1].created_at]
        Regular == [price |-> regular[1], isSale |-> FALSE,
                    created_at |-> slot.regular[1].created_at]
    IN  IF mode = "regular"
        THEN (IF slot.regular # None THEN Some(Regular) ELSE None)
        ELSE IF mode = "sale"
        THEN (IF slot.sale # None /\ saleOk THEN Some(Sale) ELSE None)
        ELSE IF sale # None /\ regular # None
        THEN (IF FLeq(sale[1], regular[1]) THEN Some(Sale) ELSE Some(Regular))
        ELSE IF sale # None THEN Some(Sale)
        ELSE IF regular # None THEN Some(Regular)
        ELSE None

\* vals.sort((a, b) => a.price - b.price): a stable sort, ascending by price
\* an insertion that puts x before the elements of equal price (not stable)
RECURSIVE InsertBeforeEqual(_, _)
InsertBeforeEqual(x, sorted) ==
  IF sorted = <<>> THEN <<x>>
  ELSE IF FLeq(x.price, Head(sorted).price) THEN <<x>> \o sorted
  ELSE <<Head(sorted)>> \o InsertBeforeEqual(x, Tail(sorted))

RECURSIVE InsertByPrice(_, _)
InsertByPrice(x, sorted) ==
  IF sorted = <<>> THEN <<x>>
  ELSE IF FLess(x.price, Head(sorted).price) THEN <<x>> \o sorted
  ELSE <<Head(sorted)>> \o InsertByPrice(x, Tail(sorted))

\* a ranking that leaves vals in the order of the store list
SortByPriceUnsorted(vals) == vals

RECURSIVE SortByPrice(_)
SortByPrice(vals) ==
  IF vals = <<>> THEN <<>>
  ELSE InsertByPrice(vals[Len(vals)], SortByPrice(SubSeq(vals, 1, Len(vals) - 1)))

\* Math.round(((second - cheapest) / second * 100) * 10) / 10
SavePctOfPrices(cheapest, second) ==
  LET savePct == FMul(FDiv(FSub(second, cheapest), second), FromNat(100))
      times10 == FMul(savePct, FromNat(10))
  IN  IF ~IsFinite(times10) THEN times10
      ELSE FDiv(FromNat(MathRound(times10)), FromNat(10))

Prices == {PriceOf[c] : c \in PriceCents}

SavePctOf ==
  [cheapest \in Prices, second \in Prices |-> SavePctOfPrices(cheapest, second)]

\* a ranking that compares a single price with itself (second ?? cheapest)
GetCheapestInfoSelf(variantId) ==
  LET cells  == [i \in DOMAIN stores |->
                   [storeId |-> stores[i], cell |-> GetDisplayPrice(variantId, stores[i])]]
      priced == SelectSeq(cells, LAMBDA c : c.cell # None)
      vals   == [i \in DOMAIN priced |->
                   [storeId |-> priced[i].storeId, price |-> priced[i].cell[1].price]]
      sorted == SortByPrice(vals)
  IN  IF Len(sorted) = 0
      THEN [cheapestStoreId |-> None, savePct |-> None]
      ELSE IF Len(sorted) = 1
      THEN [cheapestStoreId |-> Some(sorted[1].storeId),
            savePct |-> Some(SavePctOf[sorted[1].price, sorted[1].price])]
      ELSE [cheapestStoreId |-> Some(sorted[1].storeId),
            savePct |-> Some(SavePctOf[sorted[1].price, sorted[2].price])]

GetCheapestInfo(variantId) ==
  LET cells  == [i \in DOMAIN stores |->
                   [storeId |-> stores[i], cell |-> GetDisplayPrice(variantId, stores[i])]]
      priced == SelectSeq(cells, LAMBDA c : c.cell # None)
      vals   == [i \in DOMAIN priced |->
                   [storeId |-> priced[i].storeId, price |-> priced[i].cell[1].price]]
      sorted == SortByPrice(vals)
  IN  IF Len(sorted) = 0
      THEN [cheapestStoreId |-> None, savePct |-> None]
      ELSE IF Len(sorted) = 1
      THEN [cheapestStoreId |-> Some(sorted[1].storeId), savePct |-> None]
      ELSE [cheapestStoreId |-> Some(sorted[1].storeId),
            savePct |-> Some(SavePctOf[sorted[1].price, sorted[2].price])]

\* a check that looks at the first store only
HasAnyPriceFirstStore(variantId, i) ==
  IF i > Len(stores) THEN FALSE
  ELSE GetDisplayPrice(variantId, stores[i]) # None

\* the loop of hasAnyPrice, from the i-th store on
RECURSIVE HasAnyPriceFrom(_, _)
HasAnyPriceFrom(variantId, i) ==
  IF i > Len(stores) THEN FALSE
  ELSE IF GetDisplayPrice(variantId, stores[i]) # None THEN TRUE
  ELSE HasAnyPriceFrom(variantId, i + 1)

HasAnyPrice(variantId) == HasAnyPriceFrom(variantId, 1)

\* isCheapest of the cell of a row: cheapestStoreId === s.id && cell.price != null
IsCheapest(variantId, storeId) ==
  /\ GetCheapestInfo(variantId).cheapestStoreId = Some(storeId)
  /\ GetDisplayPrice(variantId, storeId) # None

\* the label of the search filter
LabelOf(v) ==
  v.brand_name \o <<" ">> \o v.product_name \o <<" ">> \o
  SizeText(v.size_value) \o OrEmpty(v.size_unit) \o <<" ">> \o OrEmpty(v.flavour)

\* a filter that compares the query as typed with the lower-cased label
FilterVariantsAsTyped(q0, vs) ==
  LET q == Trim(q0)
  IN  IF q = <<>> THEN vs
      ELSE SelectSeq(vs, LAMBDA v : Includes(ToLowerCase(LabelOf(v)), q))

\* the filteredVariants memo, for query q0 and variants vs
FilterVariants(q0, vs) ==
  LET q == ToLowerCase(Trim(q0))
  IN  IF q = <<>> THEN vs
      ELSE SelectSeq(vs, LAMBDA v : Includes(ToLowerCase(LabelOf(v)), q))

filteredVariants == FilterVariants(query, variants)

(***************************************************************************)
(* The whole program, from an empty table: prices are submitted, approved  *)
(* on the moderate page and loaded by the home page.                       *)
(***************************************************************************)
AcceptedPriceTexts == {price \in PriceTexts : CentsOf[price] # None}

Next ==
  \/ \E storeId \in {"s1", "s2"}, price \in AcceptedPriceTexts,
        priceType \in PriceTypes, saleEndDate \in {None, Some(0)} :
       Submit(storeId, "v1", price, priceType, saleEndDate, TRUE)
  \/ DbTick
  \/ ModerateLoad(TRUE)
  \/ \E id \in 1..MaxSubs, ok \in BOOLEAN :
       Len(approving) < MaxApproving /\ ApproveUpdate(id, ok)
  \/ \E k \in 1..MaxApproving : ApproveReturn(k)
  \/ Load(TRUE, TRUE, TRUE)
  \/ \E m \in Modes : SetMode(m)

Spec == Init /\ [][Next]_vars

(***************************************************************************)
(* The add page alone, with every kind of input.                           *)
(***************************************************************************)
NextIntake ==
  \/ \E storeId \in {"", "s1", "s2"}, variantId \in {"", "v1"}, price \in PriceTexts,
        priceType \in PriceTypes, saleEndDate \in SaleEndDates, insertOk \in BOOLEAN :
       Submit(storeId, variantId, price, priceType, saleEndDate, insertOk)
  \/ DbTick

SpecIntake == Init /\ [][NextIntake]_vars

(***************************************************************************)
(* The home page's search box: the catalog is loaded and a query is typed. *)
(***************************************************************************)
MaxQueryLen == 3
QueryChars == {" ", "\t", "a", "A", "b"}
Queries == UNION {[1..n -> QueryChars] : n \in 0..MaxQueryLen}

NextSearch ==
  \/ \E storeOk, vOk, subOk \in BOOLEAN : Load(storeOk, vOk, subOk)
  \/ \E q \in Queries : SetQuery(q)

SpecSearch == Init /\ [][NextSearch]_vars

(***************************************************************************)
(* The home page over a table that already holds rows.  Every row is one   *)
(* that submit inserts (RowOf over the form's inputs and the cents the     *)
(* form computes), approved or not, in insertion order.                    *)
(***************************************************************************)
Tables(rows) ==
  {tbl \in UNION {[1..n -> rows] : n \in 0..MaxRows} :
     \A i \in DOMAIN tbl : i + 1 \in DOMAIN tbl =>
       tbl[i].created_at <= tbl[i + 1].created_at}

InitBoard(rows) ==
  /\ price_submissions \in Tables(rows)
  /\ dbNow = MaxDbNow
  /\ now = 0
  /\ status = ""
  /\ items = <<>>
  /\ modLoading = TRUE
  /\ approving = <<>>
  /\ stores = <<>>
  /\ submissions = <<>>
  /\ loading = TRUE
  /\ mode = "best"
  /\ variants = <<>>
  /\ query = <<>>

\* two stores, two variants, both price types, one price, approved or not
IndexRows ==
  {RowOf(storeId, variantId, cents, priceType, None, createdAt, approved) :
     storeId \in {"s1", "s2"}, variantId \in VariantIds,
     cents \in {c \in PriceCents : c = 45}, priceType \in PriceTypes,
     createdAt \in 0..MaxDbNow, approved \in BOOLEAN}

NextIndex == \E storeOk, subOk \in BOOLEAN : Load(storeOk, TRUE, subOk)

SpecIndex == InitBoard(IndexRows) /\ [][NextIndex]_vars

\* a table written outside the add page too: rows of a store that is not in
\* the stores table ("s9"), of a variant that is not in the catalog ("v9"),
\* and rows without variant_id
FeedRows ==
  {RowOf(storeId, variantId, cents, priceType, None, 0, TRUE) :
     storeId \in {"s1", "s9"}, variantId \in {"", "v1", "v9"},
     cents \in {c \in PriceCents : c = 45}, priceType \in PriceTypes}

NextFeed ==
  \/ \E storeOk, subOk \in BOOLEAN : Load(storeOk, TRUE, subOk)
  \/ \E m \in Modes : SetMode(m)

SpecFeed == InitBoard(FeedRows) /\ [][NextFeed]_vars

\* the moderate page over a table of pending rows, with approve calls that
\* overlap: up to MaxOverlap of them await their answer at once
MaxOverlap == 2

PendingRows ==
  {RowOf(storeId, "v1", cents, "regular", None, createdAt, FALSE) :
     storeId \in {"s1", "s2"}, cents \in {c \in PriceCents : c = 45},
     createdAt \in 0..MaxDbNow}

NextModerate ==
  \/ \E ok \in BOOLEAN : ModerateLoad(ok)
  \/ \E id \in 1..MaxRows, ok \in BOOLEAN :
       Len(approving) < MaxOverlap /\ ApproveUpdate(id, ok)
  \/ \E k \in 1..MaxOverlap : ApproveReturn(k)

SpecModerate == InitBoard(PendingRows) /\ [][NextModerate]_vars

\* one pair, two prices, regular prices and sales with every end date
PriceRows ==
  {RowOf("s1", "v1", cents, priceType, saleEndDate, createdAt, TRUE) :
     cents \in {c \in PriceCents : c > 0}, priceType \in PriceTypes,
     saleEndDate \in SaleEndDates, createdAt \in 0..1}

NextPrice ==
  \/ \E storeOk, subOk \in BOOLEAN : Load(storeOk, TRUE, subOk)
  \/ \E m \in Modes : SetMode(m)
  \/ Tick

SpecPrice == InitBoard(PriceRows) /\ [][NextPrice]_vars

\* three stores, one variant, every price, regular prices and open-ended sales
RankRows ==
  {RowOf(storeId, "v1", cents, priceType, None, 0, TRUE) :
     storeId \in {StoresTable[i] : i \in DOMAIN StoresTable},
     cents \in PriceCents, priceType \in PriceTypes}

NextRank ==
  \/ \E storeOk, subOk \in BOOLEAN : Load(storeOk, TRUE, subOk)
  \/ \E m \in Modes : SetMode(m)

SpecRank == InitBoard(RankRows) /\ [][NextRank]_vars

(***************************************************************************)
(* What the feed holds for a pair, stated over the feed itself.            *)
(***************************************************************************)
StoreIds == {StoresTable[i] : i \in DOMAIN StoresTable}

\* the feed's submissions of a pair and type
Of(variantId, storeId, priceType) ==
  {submissions[i] : i \in {j \in DOMAIN submissions :
     /\ submissions[j].variant_id = variantId
     /\ submissions[j].store_id = storeId
     /\ submissions[j].price_type = priceType}}

\* those among them with the maximum created_at
Newest(variantId, storeId, priceType) ==
  {x \in Of(variantId, storeId, priceType) :
     \A y \in Of(variantId, storeId, priceType) : x.created_at >= y.created_at}

\* None when the set is empty, else any of its members
Choices(set) == IF set = {} THEN {None} ELSE {Some(x) : x \in set}

SlotOf(variantId, storeId) ==
  IF variantId \in DOMAIN latest /\ storeId \in DOMAIN latest[variantId]
  THEN latest[variantId][storeId] ELSE EmptySlot

Today == now \div TicksPerDay

\* a sale submission is active on the calendar day Today
Active(x) == x.sale_end_date = None \/ x.sale_end_date[1] >= Today

Shown(x, isSale) ==
  Some([price |-> PriceOf[x.price_cents], isSale |-> isSale, created_at |-> x.created_at])

(***************************************************************************)
(* C1 (latest-wins): for every pair of a variant and a store and each      *)
(* price type, the slot of the latest map holds a submission of that pair  *)
(* and type whose created_at is the maximum among them, and is empty iff   *)
(* the feed has no submission of that pair and type.                       *)
(***************************************************************************)
C1_LatestWins ==
  \A v \in VariantIds, s \in StoreIds, ty \in PriceTypes :
    LET held == IF ty = "regular" THEN SlotOf(v, s).regular ELSE SlotOf(v, s).sale
    IN  IF Of(v, s, ty) = {} THEN held = None
        ELSE held # None /\ held[1] \in Newest(v, s, ty)

\* a pair with regular submissions at three different times, the newest one held
C1_Witness ==
  /\ ~loading
  /\ \E v \in VariantIds, s \in StoreIds :
       /\ Cardinality({x.created_at : x \in Of(v, s, "regular")}) >= 3
       /\ SlotOf(v, s).regular # None
       /\ SlotOf(v, s).regular[1].created_at = MaxDbNow

(***************************************************************************)
(* C2 (sale validity): isSaleStillValid is false for an absent sale, true  *)
(* for a sale without end date, and otherwise true iff the end date is on  *)
(* or after today's calendar day.                                          *)
(***************************************************************************)
C2_SaleValidity ==
  /\ IsSaleStillValid(None) = FALSE
  /\ \A i \in DOMAIN submissions :
       submissions[i].price_type = "sale" =>
         IsSaleStillValid(Some(submissions[i])) =
           (\/ submissions[i].sale_end_date = None
            \/ submissions[i].sale_end_date[1] >= Today)

\* a sale that ends today is valid, one that ended yesterday is not
C2_Witness ==
  \E i, j \in DOMAIN submissions :
    /\ submissions[i].price_type = "sale"
    /\ submissions[j].price_type = "sale"
    /\ submissions[i].sale_end_date = Some(Today)
    /\ submissions[j].sale_end_date = Some(Today - 1)
    /\ now % TicksPerDay # 0
    /\ IsSaleStillValid(Some(submissions[i]))
    /\ ~IsSaleStillValid(Some(submissions[j]))

(***************************************************************************)
(* C3 (mode "best"): with rg the newest regular submission of the pair and *)
(* sl its newest sale submission, the display price is the sale's when the *)
(* sale is active and (there is no regular price or sale <= regular), the  *)
(* regular price when there is one and the sale is absent, expired or      *)
(* dearer, and empty otherwise.                                            *)
(***************************************************************************)
ExpectedBest(rg, sl) ==
  LET act == sl # None /\ Active(sl[1])
  IN  IF rg # None /\ act
      THEN (IF sl[1].price_cents <= rg[1].price_cents
            THEN Shown(sl[1], TRUE) ELSE Shown(rg[1], FALSE))
      ELSE IF act THEN Shown(sl[1], TRUE)
      ELSE IF rg # None THEN Shown(rg[1], FALSE)
      ELSE None

C3_BestMode ==
  mode = "best" =>
    \A v \in VariantIds, s \in StoreIds :
      \E rg \in Choices(Newest(v, s, "regular")), sl \in Choices(Newest(v, s, "sale")) :
        GetDisplayPrice(v, s) = ExpectedBest(rg, sl)

\* a regular price and an active sale at the same price: the sale is shown
C3_Witness ==
  /\ mode = "best"
  /\ \E v \in VariantIds, s \in StoreIds :
       \E rg \in Newest(v, s, "regular"), sl \in Newest(v, s, "sale") :
         /\ Active(sl)
         /\ sl.sale_end_date # None
         /\ sl.price_cents = rg.price_cents
         /\ GetDisplayPrice(v, s) = Shown(sl, TRUE)

(***************************************************************************)
(* C4 (mode "regular"): the display price is the newest regular            *)
(* submission's price with isSale false, empty when the pair has no        *)
(* regular submission, whatever sale submissions the pair has.             *)
(***************************************************************************)
C4_RegularMode ==
  mode = "regular" =>
    \A v \in VariantIds, s \in StoreIds :
      \E rg \in Choices(Newest(v, s, "regular")) :
        GetDisplayPrice(v, s) = IF rg = None THEN None ELSE Shown(rg[1], FALSE)

\* a cheaper active sale, newer than the regular price, is not shown
C4_Witness ==
  /\ mode = "regular"
  /\ \E v \in VariantIds, s \in StoreIds :
       \E rg \in Newest(v, s, "regular"), sl \in Newest(v, s, "sale") :
         /\ Active(sl)
         /\ sl.price_cents < rg.price_cents
         /\ sl.created_at > rg.created_at
         /\ GetDisplayPrice(v, s) = Shown(rg, FALSE)

(***************************************************************************)
(* C5 (mode "sale"): the display price is the newest sale submission's     *)
(* price with isSale true when that submission exists and is active, and   *)
(* empty otherwise, whatever regular price the pair has.                   *)
(***************************************************************************)
C5_SaleMode ==
  mode = "sale" =>
    \A v \in VariantIds, s \in StoreIds :
      \E sl \in Choices(Newest(v, s, "sale")) :
        GetDisplayPrice(v, s) =
          IF sl # None /\ Active(sl[1]) THEN Shown(sl[1], TRUE) ELSE None

\* an expired sale beside a regular price: nothing is shown
C5_Witness ==
  /\ mode = "sale"
  /\ \E v \in VariantIds, s \in StoreIds :
       \E rg \in Newest(v, s, "regular"), sl \in Newest(v, s, "sale") :
         /\ ~Active(sl)
         /\ Newest(v, s, "sale") = {sl}
         /\ GetDisplayPrice(v, s) = None

(***************************************************************************)
(* What a row of the table shows, in cents.                                *)
(***************************************************************************)
\* the stores (by position in the store list) with a display price
Priced(variantId) ==
  {i \in DOMAIN stores : GetDisplayPrice(variantId, stores[i]) # None}

\* the cents of the display price of the store at position i
CentsAt(variantId, i) ==
  CHOOSE c \in PriceCents : PriceOf[c] = GetDisplayPrice(variantId, stores[i])[1].price

\* the lowest display price of the row, and the lowest of the others
Lowest(variantId) ==
  CHOOSE c \in PriceCents :
    /\ \E i \in Priced(variantId) : CentsAt(variantId, i) = c
    /\ \A i \in Priced(variantId) : c <= CentsAt(variantId, i)

SecondLowest(variantId) ==
  LET first == CHOOSE i \in Priced(variantId) : CentsAt(variantId, i) = Lowest(variantId)
      rest  == Priced(variantId) \ {first}
  IN  CHOOSE c \in PriceCents :
        /\ \E i \in rest : CentsAt(variantId, i) = c
        /\ \A i \in rest : c <= CentsAt(variantId, i)

\* 1000 * (hi - lo) / hi rounded to an integer, halves away from zero (hi > 0)
HalfAwayTenths(lo, hi) == (2000 * (hi - lo) + hi) \div (2 * hi)

\* the Number n / 10
Tenths == [n \in 0..1000 |-> FDiv(FromNat(n), FromNat(10))]

(***************************************************************************)
(* C6 (ranking with savings): when at least two stores have a display      *)
(* price, cheapestStoreId is a store with the lowest display price and     *)
(* savePct is (secondLowest - lowest) / secondLowest * 100 rounded to one   *)
(* decimal place, halves away from zero.                                   *)
(***************************************************************************)
C6_RankingWithSavings ==
  \A v \in VariantIds :
    Cardinality(Priced(v)) >= 2 =>
      LET info == GetCheapestInfo(v)
      IN  /\ info.cheapestStoreId # None
          /\ \E i \in Priced(v) :
               stores[i] = info.cheapestStoreId[1] /\ CentsAt(v, i) = Lowest(v)
          /\ SecondLowest(v) > 0 =>
               info.savePct = Some(Tenths[HalfAwayTenths(Lowest(v), SecondLowest(v))])

(***************************************************************************)
(* C7 (ranking with fewer than two prices): with no priced store both      *)
(* cheapestStoreId and savePct are null; with exactly one priced store     *)
(* cheapestStoreId is that store and savePct is null.                      *)
(***************************************************************************)
C7_FewerThanTwo ==
  \A v \in VariantIds :
    LET info == GetCheapestInfo(v)
    IN  /\ Priced(v) = {} => info = [cheapestStoreId |-> None, savePct |-> None]
        /\ \A i \in Priced(v) :
             Priced(v) = {i} =>
               info = [cheapestStoreId |-> Some(stores[i]), savePct |-> None]

\* a loaded store list where one variant has exactly one price and another none
C7_Witness ==
  /\ Len(stores) >= 2
  /\ \E v \in VariantIds : Priced(v) = {} /\ GetCheapestInfo(v).cheapestStoreId = None
  /\ \E v \in VariantIds :
       /\ Priced(v) = {Len(stores)}
       /\ GetCheapestInfo(v).cheapestStoreId = Some(stores[Len(stores)])
       /\ GetCheapestInfo(v).savePct = None

(***************************************************************************)
(* C8 (tie-break): cheapestStoreId is the first store, in the order of the *)
(* store list, among the stores with the lowest display price.             *)
(***************************************************************************)
C8_TieBreak ==
  \A v \in VariantIds :
    Priced(v) # {} =>
      \E i \in Priced(v) :
        /\ GetCheapestInfo(v).cheapestStoreId = Some(stores[i])
        /\ CentsAt(v, i) = Lowest(v)
        /\ \A j \in Priced(v) : j < i => CentsAt(v, j) > Lowest(v)

\* the second and third store tie below the first: the second is cheapest
C8_Witness ==
  \E v \in VariantIds :
    /\ Priced(v) = {1, 2, 3}
    /\ CentsAt(v, 2) = CentsAt(v, 3)
    /\ CentsAt(v, 2) < CentsAt(v, 1)
    /\ GetCheapestInfo(v).cheapestStoreId = Some(stores[2])

(***************************************************************************)
(* C9 (savePct): a non-null savePct is a number that is not negative, and  *)
(* it is 0 when the two lowest display prices are equal.                   *)
(***************************************************************************)
C9_SavePctNotNegative ==
  \A v \in VariantIds :
    LET info == GetCheapestInfo(v)
    IN  info.savePct # None =>
          /\ IsFinite(info.savePct[1])
          /\ ~info.savePct[1].neg
          /\ Lowest(v) = SecondLowest(v) => info.savePct[1] = Zero

(***************************************************************************)
(* C10 (intake): every submission the add page inserts has a price_cents   *)
(* that is a positive integer and a price_type of "regular" or "sale".     *)
(***************************************************************************)
C10_PositiveCents ==
  \A i \in DOMAIN price_submissions :
    /\ price_submissions[i].price_cents \in Nat
    /\ price_submissions[i].price_cents > 0
    /\ price_submissions[i].price_type \in PriceTypes

(***************************************************************************)
(* C11 (hasAnyPrice): hasAnyPrice of a variant is true exactly when some   *)
(* store of the store list has a display price for it under the current    *)
(* mode and clock; it is false for an empty store list and for a variant   *)
(* without indexed submissions.                                            *)
(***************************************************************************)
C11_HasAnyPrice ==
  \A v \in VariantIds :
    /\ HasAnyPrice(v) <=> (\E i \in DOMAIN stores : GetDisplayPrice(v, stores[i]) # None)
    /\ stores = <<>> => ~HasAnyPrice(v)
    /\ v \notin DOMAIN latest => ~HasAnyPrice(v)

\* only the last store of the list has a price for one variant, another has none
C11_Witness ==
  /\ Len(stores) >= 2
  /\ \E v \in VariantIds :
       /\ \A i \in DOMAIN stores :
            (GetDisplayPrice(v, stores[i]) # None) <=> (i = Len(stores))
       /\ HasAnyPrice(v)
  /\ \E v \in VariantIds : v \notin DOMAIN latest /\ ~HasAnyPrice(v)

(***************************************************************************)
(* The search filter as stated: folding of letter case, the query without  *)
(* its leading and trailing whitespace, the label of a catalog row.        *)
(***************************************************************************)
CasePairs == {<<"A", "a">>, <<"B", "b">>, <<"L", "l">>}
Fold(c) == IF \E p \in CasePairs : p[1] = c
           THEN (CHOOSE p \in CasePairs : p[1] = c)[2] ELSE c
Unfold(c) == IF \E p \in CasePairs : p[2] = c
             THEN (CHOOSE p \in CasePairs : p[2] = c)[1] ELSE c

\* the positions of q that hold no whitespace
Inked(q) == {i \in DOMAIN q : q[i] \notin Whitespace}

\* q trimmed and in lower case
Needle(q) ==
  LET first == CHOOSE i \in Inked(q) : \A j \in Inked(q) : i <= j
      last  == CHOOSE i \in Inked(q) : \A j \in Inked(q) : i >= j
  IN  IF Inked(q) = {} THEN <<>>
      ELSE [j \in 1..(last - first + 1) |-> Fold(q[first + j - 1])]

\* "{brand} {product} {sizeValue}{sizeUnit} {flavour}" of the catalog row of id
CatalogLabel(id) ==
  LET r == CHOOSE r \in {ProductVariantsTable[i] : i \in DOMAIN ProductVariantsTable} :
             r.id = id
  IN  OrEmpty(r.brands) \o <<" ">> \o OrEmpty(r.products) \o <<" ">> \o
      SizeText(r.size_value) \o OrEmpty(r.size_unit) \o <<" ">> \o OrEmpty(r.flavour)

Matches(id, q) ==
  \/ Inked(q) = {}
  \/ LET n == Needle(q)
         l == CatalogLabel(id)
     IN  \E k \in 0..(Len(l) - Len(n)) : \A j \in DOMAIN n : Fold(l[k + j]) = n[j]

IdsOf(vs) == {vs[i].id : i \in DOMAIN vs}

\* the variants with every letter of their fields in upper case
UpperCased(vs) ==
  LET Up(text) == [i \in DOMAIN text |-> Unfold(text[i])]
      UpOpt(x) == IF x = None THEN None ELSE Some(Up(x[1]))
  IN  [i \in DOMAIN vs |->
         [vs[i] EXCEPT !.product_name = Up(@), !.brand_name = Up(@),
                       !.size_unit = UpOpt(@), !.flavour = UpOpt(@)]]

(***************************************************************************)
(* C12 (search filter): an empty or whitespace-only query keeps every      *)
(* variant; otherwise a variant is kept exactly when the trimmed,          *)
(* lower-cased query is a substring of its lower-cased label; the result   *)
(* does not depend on the letter case of the query or of the fields.       *)
(***************************************************************************)
C12_SearchFilter ==
  /\ Inked(query) = {} => filteredVariants = variants
  /\ filteredVariants = SelectSeq(variants, LAMBDA v : Matches(v.id, query))
  /\ \A q \in Queries :
       Needle(q) = Needle(query) =>
         IdsOf(FilterVariants(q, variants)) = IdsOf(filteredVariants)
  /\ IdsOf(FilterVariants(query, UpperCased(variants))) = IdsOf(filteredVariants)

\* a query with an upper-case letter and whitespace around it keeps one variant of two
C12_Witness ==
  /\ Len(variants) = 2
  /\ Len(filteredVariants) = 1
  /\ \E i \in DOMAIN query : query[i] = "A"
  /\ query # <<>> /\ Head(query) \in Whitespace

(***************************************************************************)
(* Identifiers a lookup may be made with: of the catalog, of the stores    *)
(* table, of the feed only, of none of them, and the empty one.            *)
(***************************************************************************)
ProbeVariantIds == VariantIds \cup {"", "v9", "v0"}
ProbeStoreIds == StoreIds \cup {"s9", "s0"}

\* the feed has a well-formed submission of the pair
Indexed(variantId, storeId) ==
  variantId # "" /\ \E ty \in PriceTypes : Of(variantId, storeId, ty) # {}

(***************************************************************************)
(* C13 (dangling identifiers): for a variant id and a store id without an  *)
(* entry in the index, whatever the ids are, the display price is empty in *)
(* the current mode, the store is not the cheapest store of the variant,   *)
(* and hasAnyPrice is false when no store of the list has an entry.        *)
(***************************************************************************)
C13_DanglingIds ==
  \A v \in ProbeVariantIds :
    /\ \A s \in ProbeStoreIds :
         ~Indexed(v, s) =>
           /\ GetDisplayPrice(v, s) = None
           /\ GetCheapestInfo(v).cheapestStoreId # Some(s)
           /\ ~IsCheapest(v, s)
    /\ (\A i \in DOMAIN stores : ~Indexed(v, stores[i])) =>
         /\ ~HasAnyPrice(v)
         /\ GetCheapestInfo(v) = [cheapestStoreId |-> None, savePct |-> None]

\* a variant indexed only under a store outside the store list, and a listed
\* store with a price for another variant only
C13_Witness ==
  /\ stores # <<>>
  /\ Indexed("v9", "s9") /\ ~Indexed("v9", "s1")
  /\ Indexed("v1", "s1") /\ ~Indexed("v1", "s9")
  /\ GetDisplayPrice("v1", "s1") # None
  /\ GetDisplayPrice("v9", "s1") = None
  /\ ~HasAnyPrice("v9")
  /\ HasAnyPrice("v1")

\* the feed without the submissions that have no variant_id
WellFormed(subs) == SelectSeq(subs, LAMBDA s : s.variant_id # "")

(***************************************************************************)
(* C14 (malformed submissions): a submission without variant_id creates no *)
(* entry of the index and changes no slot: the index of the feed is the    *)
(* index of the feed without those submissions.                            *)
(***************************************************************************)
C14_MalformedSkipped ==
  /\ "" \notin DOMAIN latest
  /\ latest = LatestFrom(WellFormed(submissions), 1, EmptyMap)
  /\ \A v \in DOMAIN latest : \A s \in DOMAIN latest[v] : Indexed(v, s)

\* a submission without variant_id comes first in the feed, before a
\* well-formed one of the same store and type
C14_Witness ==
  /\ Len(submissions) >= 2
  /\ submissions[1].variant_id = ""
  /\ \E i \in DOMAIN submissions :
       /\ submissions[i].variant_id # ""
       /\ submissions[i].store_id = submissions[1].store_id
       /\ submissions[i].price_type = submissions[1].price_type
       /\ SlotOf(submissions[i].variant_id, submissions[i].store_id) # EmptySlot

\* the sequence without its k-th element
Without(seq, k) == SubSeq(seq, 1, k - 1) \o SubSeq(seq, k + 1, Len(seq))

ItemIds == {items[i].id : i \in DOMAIN items}

(***************************************************************************)
(* C15 (approve): when an approve call gets its answer, a failed update    *)
(* leaves the pending list as it is and a successful one removes exactly   *)
(* the item of that id, the others staying in their order; an item leaves  *)
(* the list only when the table holds it as approved.  Calls may overlap.  *)
(***************************************************************************)
C15_Approve ==
  [][ /\ \A k \in DOMAIN approving :
           (approving' = Without(approving, k) /\ modLoading' = modLoading) =>
             IF approving[k].error
             THEN items' = items
             ELSE items' = SelectSeq(items, LAMBDA x : x.id # approving[k].id)
      /\ \A id \in ItemIds \ ItemIds' :
           modLoading' = modLoading => price_submissions'[id].is_approved
    ]_vars

\* of three loaded items one was approved and removed, while a failed call
\* and a second call for the same item of another id still await their answer
C15_Witness ==
  /\ Len(items) = 2
  /\ \E id \in RowIds(TRUE) : id \notin ItemIds
  /\ Len(approving) = 2
  /\ approving[1].error /\ ~approving[2].error
  /\ approving[1].id = approving[2].id
  /\ approving[1].id \in ItemIds

(***************************************************************************)
(* C16 (only the newest sale counts): when the newest sale submission of a *)
(* pair is expired, mode "sale" shows nothing and mode "best" shows the    *)
(* newest regular price, or nothing, also when an older sale of the pair   *)
(* is still active.                                                        *)
(***************************************************************************)
C16_NewestSaleOnly ==
  \A v \in VariantIds, s \in StoreIds :
    (Newest(v, s, "sale") # {} /\ \A sl \in Newest(v, s, "sale") : ~Active(sl)) =>
      /\ mode = "sale" => GetDisplayPrice(v, s) = None
      /\ mode = "best" =>
           \E rg \in Choices(Newest(v, s, "regular")) :
             GetDisplayPrice(v, s) = IF rg = None THEN None ELSE Shown(rg[1], FALSE)

\* the newest sale is expired, an older one has no end date and a still older
\* one ends later: nothing is shown in mode "sale"
C16_Witness ==
  /\ mode = "sale"
  /\ \E v \in VariantIds, s \in StoreIds :
       \E sl \in Newest(v, s, "sale"), o1, o2 \in Of(v, s, "sale") :
         /\ Newest(v, s, "sale") = {sl}
         /\ ~Active(sl)
         /\ o1.created_at < sl.created_at /\ o1.sale_end_date = None
         /\ o2.created_at < sl.created_at /\ o2.sale_end_date # None /\ Active(o2)
         /\ GetDisplayPrice(v, s) = None

(***************************************************************************)
(* C17 (ranking and visibility agree): hasAnyPrice of a variant is true    *)
(* exactly when its cheapestStoreId is not null; the cheapest store has a  *)
(* display price, not above that of any other store of the list; so a      *)
(* variant with hasAnyPrice has a cell with isCheapest.                    *)
(***************************************************************************)
C17_RankingAgrees ==
  \A v \in VariantIds :
    LET info == GetCheapestInfo(v)
    IN  /\ HasAnyPrice(v) <=> info.cheapestStoreId # None
        /\ info.cheapestStoreId # None =>
             \E i \in DOMAIN stores :
               /\ stores[i] = info.cheapestStoreId[1]
               /\ GetDisplayPrice(v, stores[i]) # None
               /\ \A j \in DOMAIN stores :
                    GetDisplayPrice(v, stores[j]) # None =>
                      FLeq(GetDisplayPrice(v, stores[i])[1].price,
                           GetDisplayPrice(v, stores[j])[1].price)
        /\ HasAnyPrice(v) => \E i \in DOMAIN stores : IsCheapest(v, stores[i])

\* the last store of the list is the only cheapest one
C17_Witness ==
  \E v \in VariantIds :
    /\ Priced(v) = {1, 2, 3}
    /\ CentsAt(v, 3) < CentsAt(v, 1)
    /\ CentsAt(v, 3) < CentsAt(v, 2)
    /\ HasAnyPrice(v)
    /\ IsCheapest(v, stores[3])

====
